---- MODULE Spec2Model ----
(***************************************************************************)
(* Transport and render-scheduler model of the music visualizer.           *)
(*                                                                         *)
(* The transport exists twice in the repository: the AudioPlayer class     *)
(* (renderer/audio/player.ts) and the App component's handlers working on  *)
(* React state and refs.  Both drive Web Audio buffer sources, which are   *)
(* single use and report their end through an asynchronous "ended" event,  *)
(* whether they ran to the end of the buffer or were stopped.              *)
(* Time is counted in whole clock units.                                   *)
(***************************************************************************)
EXTENDS Integers, FiniteSets, Sequences, Bags, TLC

\* ---- bounds ----
MaxClock == 3          \* the audio clock runs from 0 to MaxClock
Duration == 2          \* length of every decoded buffer, in clock units
MaxSources == 2        \* buffer sources created in one behaviour
SeekMargin == 1        \* seekTo is tried up to this far outside [0, Duration]

NoSource == 0
SourceIds == 1..MaxSources

VARIABLES
    impl,        \* which transport this behaviour runs: "player" or "app"
    now,         \* wall time, drives every AudioContext clock
    src,         \* buffer sources: id -> [st, endAt]
    player,      \* the fields of AudioPlayer
    app,         \* the state and refs of the App component
    hist,        \* observations of the transport calls made so far
    viz,         \* the Visualizer component: props, refs, pending callbacks
    inst         \* one visualization instance and what it is called with

vars == <<impl, now, src, player, app, hist, viz, inst>>
tvars == <<impl, now, src, player, app, hist, inst>>   \* all but viz

\* ---------------------------------------------------------------------------
\* Web Audio buffer sources
\* ---------------------------------------------------------------------------

Min(a, b) == IF a < b THEN a ELSE b
Max(a, b) == IF a > b THEN a ELSE b

\* a source is "none" (not created), "playing", "ending" (stopped or run out,
\* its ended event queued) or "done" (ended event delivered)
NoSources == [i \in SourceIds |-> [st |-> "none", endAt |-> 0]]

CanCreate(sr) == \E i \in SourceIds : sr[i].st = "none"

createBufferSource(sr) == CHOOSE i \in SourceIds :
                             /\ sr[i].st = "none"
                             /\ \A j \in SourceIds : j < i => sr[j].st # "none"

\* start(0, offset): the offset is clamped into the buffer by the engine
SourceStart(sr, i, offset, t) ==
    [sr EXCEPT ![i] = [st |-> "playing",
                       endAt |-> t + Duration - Max(0, Min(Duration, offset))]]

\* stop(): a playing source stops and queues its ended event
SourceStop(sr, i) ==
    IF i # NoSource /\ sr[i].st = "playing"
    THEN [sr EXCEPT ![i] = [st |-> "ending", endAt |-> 0]] ELSE sr

Playing(sr) == {i \in SourceIds : sr[i].st = "playing"}
Ending(sr) == {i \in SourceIds : sr[i].st = "ending"}
Created(sr) == {i \in SourceIds : sr[i].st # "none"}

\* ---------------------------------------------------------------------------
\* AudioPlayer (renderer/audio/player.ts)
\* A player state S is the record of the object's fields plus the sources.
\* ---------------------------------------------------------------------------

PlayerInit == [currentBuffer |-> FALSE, sourceNode |-> NoSource,
               startTime |-> 0, pauseTime |-> 0, isPlaying |-> FALSE]

getCurrentTime(S, t) == IF ~S.isPlaying THEN S.pauseTime ELSE t - S.startTime

stop(S) ==
    IF S.sourceNode = NoSource THEN S
    ELSE [S EXCEPT !.src = SourceStop(S.src, S.sourceNode),
                   !.sourceNode = NoSource,
                   !.isPlaying = FALSE,
                   !.pauseTime = 0]

play(S, t) ==
    IF ~S.currentBuffer THEN S
    ELSE LET S1 == IF S.isPlaying THEN stop(S) ELSE S
             i == createBufferSource(S1.src)
         IN IF S1.pauseTime > 0
            THEN [S1 EXCEPT !.sourceNode = i,
                            !.src = SourceStart(S1.src, i, S1.pauseTime, t),
                            !.startTime = t - S1.pauseTime,
                            !.isPlaying = TRUE]
            ELSE [S1 EXCEPT !.sourceNode = i,
                            !.src = SourceStart(S1.src, i, 0, t),
                            !.startTime = t,
                            !.isPlaying = TRUE]

pause(S, t) ==
    IF ~S.isPlaying \/ S.sourceNode = NoSource THEN S
    ELSE [S EXCEPT !.pauseTime = getCurrentTime(S, t),
                   !.src = SourceStop(S.src, S.sourceNode),
                   !.sourceNode = NoSource,
                   !.isPlaying = FALSE]

\* mutant: the requested time is stored as given
clampedTimeUnclamped(time) == time

clampedTime(time) == Max(0, Min(Duration, time))

\* mutant: playback is resumed after the seek whether or not it was playing
seekToAlwaysResumes(S, time, t) ==
    IF ~S.currentBuffer THEN S
    ELSE LET S1 == IF S.isPlaying THEN stop(S) ELSE S
             S2 == [S1 EXCEPT !.pauseTime = clampedTime(time)]
         IN play(S2, t)

seekTo(S, time, t) ==
    IF ~S.currentBuffer THEN S
    ELSE LET wasPlaying == S.isPlaying
             S1 == IF S.isPlaying THEN stop(S) ELSE S
             S2 == [S1 EXCEPT !.pauseTime = clampedTime(time)]
         IN IF wasPlaying THEN play(S2, t) ELSE S2

\* the onended handler installed by play(): it does not look at which source
\* is reporting
onended(S) == [S EXCEPT !.isPlaying = FALSE, !.pauseTime = 0]

WithSrc(P, sr) == [currentBuffer |-> P.currentBuffer, sourceNode |-> P.sourceNode,
                   startTime |-> P.startTime, pauseTime |-> P.pauseTime,
                   isPlaying |-> P.isPlaying, src |-> sr]

Fields(S) == [currentBuffer |-> S.currentBuffer, sourceNode |-> S.sourceNode,
              startTime |-> S.startTime, pauseTime |-> S.pauseTime,
              isPlaying |-> S.isPlaying]

\* ---------------------------------------------------------------------------
\* App component (the handlers of the root component)
\* R is the render a handler closes over (the useState values it sees);
\* A is the state being written: pending useState updates, the refs, the
\* sources.  A handler called from another handler still sees R.
\* ---------------------------------------------------------------------------

AppInit == [audioData |-> FALSE, audioContextRef |-> FALSE, ctxBase |-> 0,
            isPlaying |-> FALSE, isPaused |-> FALSE, currentTime |-> 0,
            sourceNodeRef |-> NoSource, startTimeRef |-> 0, pauseTimeRef |-> 0,
            opening |-> "idle"]

\* audioContextRef.current.currentTime: every AudioContext counts from its
\* own creation
ctxCurrentTime(A, t) == t - A.ctxBase

handlePlayPause(R, A, t) ==
    IF ~R.audioData \/ ~A.audioContextRef THEN A
    ELSE IF R.isPlaying
    THEN LET A1 == IF A.sourceNodeRef # NoSource
                   THEN [A EXCEPT !.pauseTimeRef = ctxCurrentTime(A, t) - A.startTimeRef,
                                  !.src = SourceStop(A.src, A.sourceNodeRef),
                                  !.sourceNodeRef = NoSource]
                   ELSE A
         IN [A1 EXCEPT !.isPlaying = FALSE, !.isPaused = TRUE]
    ELSE LET offset == IF R.isPaused THEN A.pauseTimeRef ELSE R.currentTime
             i == createBufferSource(A.src)
         IN IF offset < 0
            THEN A      \* start() raises RangeError; the handler ends there
            ELSE [A EXCEPT !.src = SourceStart(A.src, i, offset, t),
                           !.startTimeRef = ctxCurrentTime(A, t) - offset,
                           !.sourceNodeRef = i,
                           !.isPlaying = TRUE,
                           !.isPaused = FALSE]

handleStop(A) ==
    [A EXCEPT !.src = SourceStop(A.src, A.sourceNodeRef),
              !.sourceNodeRef = NoSource,
              !.isPlaying = FALSE,
              !.isPaused = FALSE,
              !.currentTime = 0,
              !.pauseTimeRef = 0]

handleSeek(R, A, time, t) ==
    IF ~R.audioData THEN A
    ELSE LET wasPlaying == R.isPlaying
             A1 == [A EXCEPT !.src = SourceStop(A.src, A.sourceNodeRef),
                             !.sourceNodeRef = NoSource,
                             !.currentTime = time,
                             !.pauseTimeRef = time]
         IN IF wasPlaying THEN handlePlayPause(R, A1, t) ELSE A1

\* sourceNode.onended of the source i created by handlePlayPause
appOnended(A, i) ==
    IF A.sourceNodeRef = i
    THEN [A EXCEPT !.isPlaying = FALSE, !.isPaused = FALSE,
                   !.currentTime = 0, !.pauseTimeRef = 0]
    ELSE A

\* one animation frame of the updateCurrentTime effect
updateCurrentTime(A, t) ==
    IF A.isPlaying /\ A.audioContextRef
    THEN [A EXCEPT !.currentTime = ctxCurrentTime(A, t) - A.startTimeRef]
    ELSE A

AppWithSrc(A, sr) == [f \in (DOMAIN A) \cup {"src"} |-> IF f = "src" THEN sr ELSE A[f]]
AppFields(A) == [f \in (DOMAIN A) \ {"src"} |-> A[f]]

\* ---------------------------------------------------------------------------
\* Visualizer component (the render scheduler)
\* V is the component's state: the props of the last render the play-state
\* effect ran for, the refs, the pending animation frames and timers.
\* Every tick loop is a chain of requestAnimationFrame callbacks closed
\* over the visualization type of the render that started it, so a loop is
\* told by that type: loops is the bag of the types of the loops that have a
\* frame pending, and rafIdRef, the id of the frame requested last, is kept
\* as the type of the loop that requested it ("null" when cleared).
\* ---------------------------------------------------------------------------

MaxLoops == 2          \* tick loops alive at once
MaxTimers == 1         \* deferred loop starts pending at once

VisualizationType == {"spectrum", "waveform", "particles", "cosmic", "psychedelic",
                      "sunburst", "rectangular", "holiday", "holiday_3d"}

VizInit == [audioData |-> FALSE, isPlaying |-> FALSE, visualizationType |-> "cosmic",
            rafIdRef |-> "null", loops |-> EmptyBag, timers |-> 0,
            sunburstRef |-> FALSE, rectangularRef |-> FALSE,
            holidayRef |-> FALSE, holiday3DRef |-> FALSE,
            lastDraw |-> "none"]

CanLoop(V) == BagCardinality(V.loops) < MaxLoops

\* cancelAnimationFrame(rafIdRef.current); rafIdRef.current = null
cancelAnimationFrame(V) ==
    IF V.rafIdRef # "null"
    THEN [V EXCEPT !.loops = @ (-) SetToBag({V.rafIdRef}), !.rafIdRef = "null"]
    ELSE V

\* the draw call of one tick as it would be if a failed construction still
\* left its instance in the scheduler's reference
drawKeepsPartial(V, type, webgl) ==
    [V EXCEPT !.sunburstRef = @ \/ type = "sunburst",
              !.rectangularRef = @ \/ type = "rectangular",
              !.holidayRef = @ \/ type = "holiday",
              !.holiday3DRef = @ \/ type = "holiday_3d",
              !.lastDraw = IF type = "holiday_3d" /\ ~V.holiday3DRef /\ ~webgl
                           THEN "failed" ELSE "drawn"]

\* the draw call of one tick: the persistent instance of the loop's type is
\* created on first use.  webgl says whether a WebGL context can be had:
\* without one the Holiday3DVisualization constructor throws, drawHoliday3D
\* logs the error and returns before the assignment and before draw().
\* lastDraw is what the last draw call did: "drawn" the instance's draw()
\* or the canvas drawing ran, "failed" the construction error was logged.
draw(V, type, webgl) ==
    IF type = "holiday_3d" /\ ~V.holiday3DRef /\ ~webgl
    THEN [V EXCEPT !.lastDraw = "failed"]
    ELSE [V EXCEPT !.sunburstRef = @ \/ type = "sunburst",
                   !.rectangularRef = @ \/ type = "rectangular",
                   !.holidayRef = @ \/ type = "holiday",
                   !.holiday3DRef = @ \/ type = "holiday_3d",
                   !.lastDraw = "drawn"]

\* animate(): request the next frame, then draw.  Called from a frame of a
\* running loop it continues that loop; called by startVisualization or by
\* its timer (first = TRUE) it begins a new one.
animate(V, type, first, webgl) ==
    draw([V EXCEPT !.rafIdRef = type,
                   !.loops = IF first THEN @ (+) SetToBag({type}) ELSE @], type, webgl)

\* ctx2d says whether the 2D canvas yields a 2D context; without one
\* startVisualization returns before animate() for every 2D type
startVisualization(V, ctx2d) ==
    IF V.visualizationType = "holiday_3d"
    THEN [V EXCEPT !.timers = @ + 1]
    ELSE IF ~ctx2d THEN V
    ELSE animate(V, V.visualizationType, TRUE, TRUE)

\* the body of the play-state effect
playStateEffect(V, ctx2d) ==
    IF ~V.audioData THEN V
    ELSE LET V1 == IF V.visualizationType = "holiday_3d"
                   THEN [V EXCEPT !.sunburstRef = FALSE, !.rectangularRef = FALSE,
                                  !.holidayRef = FALSE]
                   ELSE [V EXCEPT !.holiday3DRef = FALSE]
         IN IF V1.isPlaying THEN startVisualization(V1, ctx2d)
                            ELSE cancelAnimationFrame(V1)

\* the cleanup the effect returned, if its last run got past the early return
playStateCleanup(V) == IF V.audioData THEN cancelAnimationFrame(V) ELSE V

\* a render with new props: cleanup of the last run, then the effect
rerender(V, audio, playing, type, ctx2d) ==
    playStateEffect([playStateCleanup(V) EXCEPT !.audioData = audio,
                                                !.isPlaying = playing,
                                                !.visualizationType = type], ctx2d)

\* ---------------------------------------------------------------------------
\* The visualization classes: construction, media items, destroy()
\* An instance o has its class, the children of its scene, its element lists
\* and its OrbitControls (3D) and, for Rectangular, its media list: each item
\* has its url, its type, its loaded flag, the state el of its own image or
\* video element and whether that video plays.  stale holds the urls of the
\* image elements of dropped lists that are still loading (their handlers
\* stay attached; a dropped video is unloaded and never reports), playTimer
\* the pending 100 ms timer that plays the first video, lastDraw what the
\* last drawCenterRect put into the rectangle.
\* W is the set of resize listeners registered on window; a listener is the
\* function object made by one bind() call, told by the instance it is bound
\* to and the call that made it, since bind() returns a new object each time.
\* ---------------------------------------------------------------------------

MaxMedia == 2          \* items of a media list
MaxInstances == 2      \* instances constructed in one behaviour
SceneSize == 2         \* children a 3D constructor adds to its scene

NoInstance == [class |-> "none"]

VisualizationClasses == {"sunburst", "rectangular", "holiday", "holiday_3d",
                         "cosmic", "psychedelic", "figures"}

bind(id, site) == <<id, site>>

\* window.removeEventListener as it would be if it matched by event type
removeEventListenerByType(W, fn) == IF W = {} THEN W ELSE W \ {CHOOSE l \in W : TRUE}

\* window.removeEventListener('resize', fn): removes fn itself, if registered
removeEventListener(W, fn) == W \ {fn}

\* new X(canvas): AbstractVisualization registers a bound resizeCanvas; the
\* 3D classes build their scene, element lists and controls
construct(id, class, W) ==
    [o |-> [id |-> id, class |-> class, mediaItems |-> <<>>,
            currentMediaIndex |-> 0, stale |-> {}, playTimer |-> FALSE,
            lastDraw |-> "none",
            scene |-> IF class = "holiday_3d" THEN SceneSize ELSE 0,
            elements |-> IF class = "holiday_3d" THEN SceneSize ELSE 0,
            controls |-> class = "holiday_3d",
            rendererDisposed |-> FALSE],
     W |-> W \cup {bind(id, "constructor")}]

\* the urls a media list is made of, and url.match(/\.(mp4|webm|ogg)$/i)
Urls == {"a.png", "c.mp4"}
isVideo(url) == url = "c.mp4"

\* the urls of the image elements of a list that are still loading
loadingImages(items) ==
    {items[i].url : i \in {j \in DOMAIN items : items[j].type = "image" /\ items[j].el = "loading"}}

\* the index after setMediaItems as it would be without the reset
resetIndexNever(index, n) == index

\* if (this.mediaItems.length > 0) this.currentMediaIndex = 0
resetIndex(index, n) == IF n > 0 THEN 0 ELSE index

\* RectangularVisualization.setMediaItems(urls).  The videos of the old list
\* are paused and unloaded and the old list is dropped; every url gets a new
\* element that starts loading.
setMediaItems(o, urls) ==
    [o EXCEPT !.stale = @ \cup loadingImages(o.mediaItems),
              !.mediaItems = [i \in DOMAIN urls |->
                                 [url |-> urls[i],
                                  type |-> IF isVideo(urls[i]) THEN "video" ELSE "image",
                                  loaded |-> FALSE, el |-> "loading", playing |-> FALSE]],
              !.currentMediaIndex = resetIndex(@, Len(urls)),
              !.playTimer = Len(urls) > 0 /\ isVideo(urls[1])]

\* mediaItem = this.mediaItems.find(item => item.url === url);
\* if (mediaItem) mediaItem.loaded = true
markLoaded(items, url) ==
    LET found == {i \in DOMAIN items : items[i].url = url}
    IN IF found = {} THEN items
       ELSE LET first == CHOOSE i \in found : \A j \in found : i <= j
            IN [items EXCEPT ![first].loaded = TRUE]

\* img.onload / video.onloadeddata of the element of item i
onElementLoaded(o, i) ==
    LET url == o.mediaItems[i].url
        items == markLoaded([o.mediaItems EXCEPT ![i].el = "loaded"], url)
        current == o.currentMediaIndex + 1
        plays == /\ items[i].type = "video"
                 /\ current \in DOMAIN items
                 /\ items[current].url = url
    IN [o EXCEPT !.mediaItems = [items EXCEPT ![i].playing = @ \/ plays]]

\* img.onerror / video.onerror of the element of item i: logs
onElementError(o, i) == [o EXCEPT !.mediaItems[i].el = "failed"]

\* img.onload of an image element of a dropped list
onStaleLoaded(o, url) ==
    [o EXCEPT !.stale = @ \ {url}, !.mediaItems = markLoaded(@, url)]

\* the 100 ms timer of setMediaItems: video.play() on the first item's video
\* (the promise rejects on a video that could not load)
onPlayTimer(o) ==
    [o EXCEPT !.playTimer = FALSE,
              !.mediaItems[1].playing = @ \/ o.mediaItems[1].el # "failed"]

\* drawCenterRect: the current item if its loaded flag is set ("media": the
\* drawImage call returned), else the placeholder.  drawImage throws on an
\* image that failed to load and the catch block draws the error placeholder;
\* on a video without data it returns without drawing
drawCenterRect(o) ==
    LET current == o.currentMediaIndex + 1
    IN IF /\ Len(o.mediaItems) > 0
          /\ o.currentMediaIndex < Len(o.mediaItems)
          /\ o.mediaItems[current].loaded
       THEN [o EXCEPT !.lastDraw = IF /\ o.mediaItems[current].el = "failed"
                                      /\ o.mediaItems[current].type = "image"
                                   THEN "error" ELSE "media"]
       ELSE [o EXCEPT !.lastDraw = "placeholder"]

\* updateMedia: elapsed says whether mediaDuration has passed
updateMedia(o, elapsed) ==
    IF Len(o.mediaItems) > 1 /\ elapsed
    THEN LET old == o.currentMediaIndex + 1
             new == ((o.currentMediaIndex + 1) % Len(o.mediaItems)) + 1
             paused == IF old \in DOMAIN o.mediaItems /\ o.mediaItems[old].type = "video"
                       THEN [o.mediaItems EXCEPT ![old].playing = FALSE]
                       ELSE o.mediaItems
         IN [o EXCEPT !.currentMediaIndex = new - 1,
                      !.mediaItems =
                          IF paused[new].type = "video" /\ paused[new].loaded
                          THEN [paused EXCEPT ![new].playing = TRUE] ELSE paused]
    ELSE o

\* the media part of RectangularVisualization.draw
drawMedia(o, elapsed) == updateMedia(drawCenterRect(o), elapsed)

\* AbstractVisualization.destroy
abstractDestroy(S) ==
    [S EXCEPT !.W = removeEventListener(@, bind(S.o.id, "destroy"))]

\* Base3DVisualization.destroy
base3DDestroy(S) ==
    [abstractDestroy(S) EXCEPT !.o.scene = 0, !.o.rendererDisposed = TRUE]

\* destroy() of the instance's class
destroy(S) ==
    CASE S.o.class = "holiday_3d" ->
            [base3DDestroy(S) EXCEPT !.o.controls = FALSE, !.o.scene = 0,
                                     !.o.elements = 0]
      [] S.o.class = "rectangular" ->     \* videos paused and unloaded, list dropped
            [abstractDestroy(S) EXCEPT !.o.stale = @ \cup loadingImages(S.o.mediaItems),
                                       !.o.playTimer = FALSE,
                                       !.o.mediaItems = <<>>]
      [] OTHER -> abstractDestroy(S)

\* ---------------------------------------------------------------------------
\* The transport specification: one of the two transports, the audio clock,
\* the sources' ended events and the calls a user can make.
\* ---------------------------------------------------------------------------

\* what the transport shows as its position
PlayerPosition == getCurrentTime(player, now)
AppPosition == IF app.isPlaying THEN ctxCurrentTime(app, now) - app.startTimeRef
               ELSE app.pauseTimeRef

IsPlaying == IF impl = "player" THEN player.isPlaying ELSE app.isPlaying
Position == IF impl = "player" THEN PlayerPosition ELSE AppPosition
ActiveSource == IF impl = "player" THEN player.sourceNode ELSE app.sourceNodeRef

\* hist remembers the last transport call and what the claims about call
\* sequences need of it: whether it found the transport Playing, the position
\* a pause() found, the target of a seek(), and whether the clock has stood
\* still since a seek()
HistInit == [lastCall |-> "none", was |-> FALSE, pos |-> 0, arg |-> 0, quiet |-> FALSE]

Called(name, a) ==
    [lastCall |-> name,
     was |-> IsPlaying,
     pos |-> IF name = "pause" /\ IsPlaying THEN Position ELSE 0,
     arg |-> IF name = "seek" /\ IsPlaying THEN a ELSE 0,
     quiet |-> name = "seek" /\ IsPlaying]

Init ==
    /\ impl \in {"player", "app"}
    /\ now = 0
    /\ src = NoSources
    /\ player = PlayerInit
    /\ app = AppInit
    /\ hist = HistInit
    /\ viz = VizInit
    /\ inst = NoInstance

\* the clock never runs past the end of a playing source: the audio thread
\* finishes the source first
ClockAdvance ==
    /\ now < MaxClock
    /\ \A i \in Playing(src) : now < src[i].endAt
    /\ now' = now + 1
    /\ hist' = [hist EXCEPT !.quiet = FALSE]
    /\ UNCHANGED <<inst, viz, impl, src, player, app>>

\* a playing source reaches the end of its buffer and queues its ended event
SourceFinish ==
    \E i \in Playing(src) :
        /\ now >= src[i].endAt
        /\ src' = [src EXCEPT ![i] = [st |-> "ending", endAt |-> 0]]
        /\ UNCHANGED <<inst, viz, impl, now, player, app, hist>>

PlayerApply(S) ==
    /\ player' = Fields(S)
    /\ src' = S.src

PlayerLoadAudio ==
    /\ impl = "player"
    /\ ~player.currentBuffer
    /\ player' = [player EXCEPT !.currentBuffer = TRUE]
    /\ hist' = Called("load", 0)
    /\ UNCHANGED <<inst, viz, impl, now, src, app>>

PlayerPlay ==
    /\ impl = "player"
    /\ player.currentBuffer => CanCreate(src)
    /\ PlayerApply(play(WithSrc(player, src), now))
    /\ hist' = Called("play", 0)
    /\ UNCHANGED <<inst, viz, impl, now, app>>

PlayerPause ==
    /\ impl = "player"
    /\ PlayerApply(pause(WithSrc(player, src), now))
    /\ hist' = Called("pause", 0)
    /\ UNCHANGED <<inst, viz, impl, now, app>>

PlayerStop ==
    /\ impl = "player"
    /\ PlayerApply(stop(WithSrc(player, src)))
    /\ hist' = Called("stop", 0)
    /\ UNCHANGED <<inst, viz, impl, now, app>>

SeekArgs == (0 - SeekMargin)..(Duration + SeekMargin)

PlayerSeekToAt(time) ==
    /\ impl = "player"
    /\ player.isPlaying => CanCreate(src)
    /\ PlayerApply(seekTo(WithSrc(player, src), time, now))
    /\ hist' = Called("seek", time)
    /\ UNCHANGED <<inst, viz, impl, now, app>>

PlayerSeekTo == \E time \in SeekArgs : PlayerSeekToAt(time)

\* the ended event of source i is delivered
PlayerOnEnded ==
    /\ impl = "player"
    /\ \E i \in Ending(src) :
        /\ PlayerApply(onended(WithSrc(player, [src EXCEPT ![i].st = "done"])))
    /\ UNCHANGED <<inst, viz, impl, now, app, hist>>

AppApply(A) ==
    /\ app' = AppFields(A)
    /\ src' = A.src

\* the Play/Pause button, enabled once a file is loaded; it stays enabled
\* while handleFileOpen waits for the dialog or the decoder
AppPlayPause ==
    /\ impl = "app"
    /\ app.audioData
    /\ ~app.isPlaying => CanCreate(src)
    /\ AppApply(handlePlayPause(app, AppWithSrc(app, src), now))
    /\ hist' = Called(IF app.isPlaying THEN "pause" ELSE "play", 0)
    /\ UNCHANGED <<inst, viz, impl, now, player>>

\* the Stop button, disabled when nothing is loaded or nothing to reset
AppStop ==
    /\ impl = "app"
    /\ app.audioData
    /\ app.isPlaying \/ app.currentTime # 0
    /\ AppApply(handleStop(AppWithSrc(app, src)))
    /\ hist' = Called("stop", 0)
    /\ UNCHANGED <<inst, viz, impl, now, player>>

\* the seek slider, shown once a file is loaded, ranging over [0, duration]
AppSeekAt(time) ==
    /\ impl = "app"
    /\ app.audioData
    /\ AppApply(handleSeek(app, AppWithSrc(app, src), time, now))
    /\ hist' = Called("seek", time)
    /\ UNCHANGED <<inst, viz, impl, now, player>>

AppSeek == \E time \in 0..Duration : AppSeekAt(time)

AppOnEnded ==
    /\ impl = "app"
    /\ \E i \in Ending(src) :
        AppApply(appOnended(AppWithSrc(app, [src EXCEPT ![i].st = "done"]), i))
    /\ UNCHANGED <<inst, viz, impl, now, player, hist>>

\* an animation frame of the updateCurrentTime effect, which runs while the
\* rendered isPlaying is true
AppFrame ==
    /\ impl = "app"
    /\ app.isPlaying
    /\ AppApply(updateCurrentTime(AppWithSrc(app, src), now))
    /\ UNCHANGED <<inst, viz, impl, now, player, hist>>

\* handleFileOpen, up to its first await: handleStop, then the dialog opens
AppFileOpen ==
    /\ impl = "app"
    /\ app.opening = "idle"
    /\ AppApply([handleStop(AppWithSrc(app, src)) EXCEPT !.opening = "dialog"])
    /\ hist' = Called("open", 0)
    /\ UNCHANGED <<inst, viz, impl, now, player>>

\* the dialog is cancelled: handleFileOpen returns
AppDialogCancel ==
    /\ impl = "app"
    /\ app.opening = "dialog"
    /\ app' = [app EXCEPT !.opening = "idle"]
    /\ UNCHANGED <<inst, viz, impl, now, src, player, hist>>

\* the dialog returns a file: a new AudioContext and analyser, decoding starts
AppDialogOk ==
    /\ impl = "app"
    /\ app.opening = "dialog"
    /\ app' = [app EXCEPT !.audioContextRef = TRUE, !.ctxBase = now,
                          !.opening = "decode"]
    /\ UNCHANGED <<inst, viz, impl, now, src, player, hist>>

\* decodeAudioData resolves
AppDecoded ==
    /\ impl = "app"
    /\ app.opening = "decode"
    /\ app' = [app EXCEPT !.audioData = TRUE, !.isPlaying = FALSE,
                          !.isPaused = FALSE, !.currentTime = 0,
                          !.pauseTimeRef = 0, !.opening = "idle"]
    /\ UNCHANGED <<inst, viz, impl, now, src, player, hist>>

\* decodeAudioData rejects: the catch block logs and returns
AppDecodeFailed ==
    /\ impl = "app"
    /\ app.opening = "decode"
    /\ app' = [app EXCEPT !.opening = "idle"]
    /\ UNCHANGED <<inst, viz, impl, now, src, player, hist>>

Next ==
    \/ ClockAdvance
    \/ SourceFinish
    \/ PlayerLoadAudio
    \/ PlayerPlay
    \/ PlayerPause
    \/ PlayerStop
    \/ PlayerSeekTo
    \/ PlayerOnEnded
    \/ AppPlayPause
    \/ AppStop
    \/ AppSeek
    \/ AppOnEnded
    \/ AppFrame
    \/ AppFileOpen
    \/ AppDialogCancel
    \/ AppDialogOk
    \/ AppDecoded
    \/ AppDecodeFailed

Spec == Init /\ [][Next]_vars

TypeOK ==
    /\ impl \in {"player", "app"}
    /\ now \in 0..MaxClock
    /\ player.sourceNode \in {NoSource} \cup SourceIds
    /\ app.sourceNodeRef \in {NoSource} \cup SourceIds

\* ---------------------------------------------------------------------------
\* Claims about the transport
\* ---------------------------------------------------------------------------

MediaLoaded == IF impl = "player" THEN player.currentBuffer ELSE app.audioData

\* a play() call: AudioPlayer.play, or the Play/Pause button while not playing
PlayCall == PlayerPlay \/ (AppPlayPause /\ ~app.isPlaying)
StopCall == PlayerStop \/ AppStop
SeekCall == PlayerSeekTo \/ AppSeek
EndedEvent == PlayerOnEnded \/ AppOnEnded

\* C1: a pause() of a Playing transport at position p followed by play(),
\* with only clock advance and ended events in between, leaves the position
\* at p right after the play().
C1_PauseThenPlayResumesAtP ==
    [][(hist.lastCall = "pause" /\ hist.was /\ PlayCall) => Position' = hist.pos]_vars

\* C2: the ended event of source i stops the transport and resets the
\* position exactly when i is the active source; from any other source it
\* changes nothing of the transport.
C2_EndedOnlyFromActiveSource ==
    [][EndedEvent =>
        \A i \in SourceIds :
            (src[i].st = "ending" /\ src'[i].st = "done") =>
                IF ActiveSource = i
                THEN ~IsPlaying' /\ Position' = 0
                ELSE player' = player /\ app' = app]_vars

\* C3: after a seek(t) issued while Playing, once the old source's ended
\* event has been delivered, the transport is Playing, one source is
\* active and the position is t clamped (checked before the clock moves and
\* for targets before the end of the track).
C3_SeekWhilePlayingRestartsAtT ==
    (/\ hist.lastCall = "seek" /\ hist.was
     /\ hist.quiet
     /\ Ending(src) = {}
     /\ clampedTime(hist.arg) < Duration)
    => (/\ IsPlaying
        /\ Cardinality(Playing(src)) = 1
        /\ Position = clampedTime(hist.arg))

\* C4: stop() in any state leaves the transport Stopped, without active
\* source, with pauseTime 0 and position 0.
C4_StopResetsEverything ==
    [][StopCall =>
        /\ ~IsPlaying'
        /\ ActiveSource' = NoSource
        /\ Position' = 0
        /\ player'.pauseTime = 0
        /\ app'.pauseTimeRef = 0 /\ app'.currentTime = 0]_vars

\* C5: with media loaded, play() in any state ends Playing on a freshly
\* created source, at the position the transport had just before the call.
C5_PlayKeepsPosition ==
    [][(MediaLoaded /\ PlayCall) =>
        /\ IsPlaying'
        /\ ActiveSource' \in SourceIds \ Created(src)
        /\ Position' = Position]_vars

C7_SeekWhileNotPlayingOnlyMovesPosition ==
    [][(MediaLoaded /\ ~IsPlaying /\ SeekCall) =>
        /\ ~IsPlaying'
        /\ Created(src') = Created(src)
        /\ Playing(src') \subseteq Playing(src)
        /\ player' = [player EXCEPT !.pauseTime = player'.pauseTime]
        /\ app' = [app EXCEPT !.currentTime = app'.currentTime,
                              !.pauseTimeRef = app'.pauseTimeRef,
                              !.sourceNodeRef = NoSource]]_vars

C7_Witness ==
    /\ impl = "player"
    /\ hist.lastCall = "seek" /\ ~hist.was
    /\ player.currentBuffer /\ ~player.isPlaying
    /\ Created(src) = {}
    /\ player.pauseTime = 1

\* C8: while Playing, a read of the position is the audio clock minus the
\* stored start reference, and between transport calls the position read
\* never decreases.
NotACall == ClockAdvance \/ SourceFinish \/ EndedEvent \/ AppFrame
            \/ AppDialogCancel \/ AppDialogOk \/ AppDecoded \/ AppDecodeFailed

C8_PositionFollowsClock ==
    [][/\ AppFrame => app'.currentTime = ctxCurrentTime(app, now) - app.startTimeRef
       /\ (NotACall /\ IsPlaying /\ IsPlaying') => Position' >= Position]_vars

\* ---------------------------------------------------------------------------
\* The scheduler specification: the Visualizer under the prop changes its
\* parent can make, the animation frames and the deferred starts.
\* ---------------------------------------------------------------------------

VizSpecInit ==
    /\ impl = "app"
    /\ now = 0
    /\ src = NoSources
    /\ player = PlayerInit
    /\ app = AppInit
    /\ hist = HistInit
    /\ viz = VizInit
    /\ inst = NoInstance

\* a render that starts a loop needs a free loop number or timer slot
RoomToStart(audio, playing, type) ==
    (audio /\ playing) => IF type = "holiday_3d" THEN viz.timers < MaxTimers
                                                  ELSE CanLoop(playStateCleanup(viz))

\* a file is decoded: audioData is set and isPlaying reset in one update
VizAudioLoaded ==
    /\ viz' = rerender(viz, TRUE, FALSE, viz.visualizationType, TRUE)
    /\ UNCHANGED tvars

\* isPlaying turns true (play) or false (pause, stop, end of media)
VizPlayingChangedAt(ctx2d) ==
    /\ viz.audioData
    /\ RoomToStart(viz.audioData, ~viz.isPlaying, viz.visualizationType)
    /\ viz' = rerender(viz, viz.audioData, ~viz.isPlaying, viz.visualizationType, ctx2d)
    /\ UNCHANGED tvars

VizPlayingChanged == \E ctx2d \in BOOLEAN : VizPlayingChangedAt(ctx2d)

\* another visualization type is selected
VizTypeChangedAt(ctx2d) ==
    /\ \E type \in VisualizationType \ {viz.visualizationType} :
        /\ RoomToStart(viz.audioData, viz.isPlaying, type)
        /\ viz' = rerender(viz, viz.audioData, viz.isPlaying, type, ctx2d)
    /\ UNCHANGED tvars

VizTypeChanged == \E ctx2d \in BOOLEAN : VizTypeChangedAt(ctx2d)

\* an animation frame fires: one tick of a running loop
VizFrameAt(webgl) ==
    /\ \E type \in BagToSet(viz.loops) : viz' = animate(viz, type, FALSE, webgl)
    /\ UNCHANGED tvars

VizFrame == \E webgl \in BOOLEAN : VizFrameAt(webgl)

\* a 100 ms timer of startVisualization fires: animate() of the 3D render
VizTimerAt(webgl) ==
    /\ viz.timers > 0
    /\ CanLoop(viz)
    /\ viz' = animate([viz EXCEPT !.timers = @ - 1], "holiday_3d", TRUE, webgl)
    /\ UNCHANGED tvars

VizTimer == \E webgl \in BOOLEAN : VizTimerAt(webgl)

VizNext == VizPlayingChanged \/ VizAudioLoaded \/ VizTypeChanged \/ VizFrame \/ VizTimer

SpecViz == VizSpecInit /\ [][VizNext]_vars

\* a render tick: a frame callback or the deferred first animate()
RenderTick == VizFrame \/ VizTimer

\* C9: no render tick executes while the rendered isPlaying is false.
C9_NoTickWhileNotPlaying == [][RenderTick => viz.isPlaying]_vars

\* C10: at most one tick loop, running or deferred, is pending.
C10_OneLoopPending == BagCardinality(viz.loops) + viz.timers <= 1

\* the persistent instance the scheduler holds for a visualization type;
\* the five canvas-drawn types have none
instanceRef(V, type) ==
    CASE type = "sunburst" -> V.sunburstRef
      [] type = "rectangular" -> V.rectangularRef
      [] type = "holiday" -> V.holidayRef
      [] type = "holiday_3d" -> V.holiday3DRef
      [] OTHER -> FALSE

\* C11: every switch away from a visualization type that has an instance
\* destroys that instance (the scheduler's reference is cleared together with
\* the destroy() call) before the new type draws.
C11_SwitchDestroysPrevious ==
    [][(VizTypeChanged /\ instanceRef(viz, viz.visualizationType))
          => ~instanceRef(viz', viz.visualizationType)]_vars

\* C12: a failed decode leaves the transport Stopped with no media loaded,
\* whether or not a file was loaded before.
C12_DecodeFailureLeavesNoMedia ==
    [][AppDecodeFailed => (~app'.audioData /\ ~IsPlaying' /\ Position' = 0)]_vars

\* C25: at most one audio buffer source is started and not yet stopped or
\* run out.
C25_AtMostOneSourceRunning ==
    Cardinality({i \in SourceIds : src[i].st = "playing"}) <= 1

\* C13: once a tick's constructor has thrown, the scheduler's reference for
\* that type is null and stays null, and no draw call is made, until a later
\* tick constructs the instance whole.
C13_FailedConstructionLeavesNoInstance ==
    viz.lastDraw = "failed" => ~viz.holiday3DRef

\* a 3D tick has just failed to construct its instance
C13_Witness ==
    viz.lastDraw = "failed" /\ ~viz.holiday3DRef /\ viz.visualizationType = "holiday_3d"
    /\ viz.isPlaying /\ BagCardinality(viz.loops) = 1

\* ---------------------------------------------------------------------------
\* The instance specification: instances are constructed, given media,
\* their videos start playing, and they are destroyed any number of times.
\* ---------------------------------------------------------------------------

MediaLists == UNION {[1..n -> Urls] : n \in 0..MaxMedia}

InstInit ==
    /\ impl = "app"
    /\ now = 0
    /\ src = NoSources
    /\ player = PlayerInit
    /\ app = AppInit
    /\ hist = HistInit
    /\ viz = VizInit
    /\ inst = [o |-> NoInstance, W |-> {}, made |-> 0, lastOp |-> "none", destroys |-> 0]

InstVars == <<impl, now, src, player, app, hist, viz>>

InstConstruct ==
    /\ inst.made < MaxInstances
    /\ \E class \in VisualizationClasses :
        LET S == construct(inst.made + 1, class, inst.W)
        IN inst' = [o |-> S.o, W |-> S.W, made |-> inst.made + 1,
                    lastOp |-> "construct", destroys |-> 0]
    /\ UNCHANGED InstVars

InstSetMediaItems ==
    /\ inst.o.class = "rectangular"
    /\ \E urls \in MediaLists :
        inst' = [inst EXCEPT !.o = setMediaItems(@, urls), !.lastOp = "media"]
    /\ UNCHANGED InstVars

\* the image or video element of item i reports that it has loaded
InstElementLoaded ==
    /\ inst.o.class = "rectangular"
    /\ \E i \in DOMAIN inst.o.mediaItems :
        /\ inst.o.mediaItems[i].el = "loading"
        /\ inst' = [inst EXCEPT !.o = onElementLoaded(@, i), !.lastOp = "event"]
    /\ UNCHANGED InstVars

\* the element of item i reports that it could not load
InstElementError ==
    /\ inst.o.class = "rectangular"
    /\ \E i \in DOMAIN inst.o.mediaItems :
        /\ inst.o.mediaItems[i].el = "loading"
        /\ inst' = [inst EXCEPT !.o = onElementError(@, i), !.lastOp = "event"]
    /\ UNCHANGED InstVars

\* an image element of a dropped list reports that it has loaded
InstStaleLoaded ==
    /\ inst.o.class = "rectangular"
    /\ \E url \in inst.o.stale :
        inst' = [inst EXCEPT !.o = onStaleLoaded(@, url), !.lastOp = "event"]
    /\ UNCHANGED InstVars

\* an image element of a dropped list reports that it could not load
InstStaleError ==
    /\ inst.o.class = "rectangular"
    /\ \E url \in inst.o.stale :
        inst' = [inst EXCEPT !.o.stale = @ \ {url}, !.lastOp = "event"]
    /\ UNCHANGED InstVars

\* the 100 ms timer that plays the first video fires
InstPlayTimer ==
    /\ inst.o.class = "rectangular"
    /\ inst.o.playTimer
    /\ inst' = [inst EXCEPT !.o = onPlayTimer(@), !.lastOp = "event"]
    /\ UNCHANGED InstVars

\* a tick: draw() of a Rectangular instance
InstTickAt(elapsed) ==
    /\ inst.o.class = "rectangular"
    /\ inst' = [inst EXCEPT !.o = drawMedia(@, elapsed), !.lastOp = "tick"]
    /\ UNCHANGED InstVars

InstTick == \E elapsed \in BOOLEAN : InstTickAt(elapsed)

InstDestroy ==
    /\ inst.o.class # "none"
    /\ LET S == destroy([o |-> inst.o, W |-> inst.W])
       IN inst' = [inst EXCEPT !.o = S.o, !.W = S.W, !.lastOp = "destroy",
                               !.destroys = Min(2, @ + 1)]
    /\ UNCHANGED InstVars

InstNext ==
    \/ InstConstruct
    \/ InstSetMediaItems
    \/ InstElementLoaded
    \/ InstElementError
    \/ InstStaleLoaded
    \/ InstStaleError
    \/ InstPlayTimer
    \/ InstTick
    \/ InstDestroy

SpecInst == InstInit /\ [][InstNext]_vars

\* C14: a destroy() that directly follows a destroy() of the same instance
\* leaves the instance, its media list and the registered listeners as the
\* first call left them.
C14_DestroyIdempotent ==
    [][(InstDestroy /\ inst.lastOp = "destroy")
          => (inst'.o = inst.o /\ inst'.W = inst.W)]_vars

\* an instance that held a playing video has been destroyed twice while an
\* earlier instance's listener is still registered
C14_Witness ==
    /\ inst.destroys = 2
    /\ inst.lastOp = "destroy"
    /\ inst.made = 2
    /\ Cardinality(inst.W) = 2

\* the item the tick draws, 0 when the index points at no item
currentItem(o) ==
    IF o.currentMediaIndex + 1 \in DOMAIN o.mediaItems THEN o.currentMediaIndex + 1 ELSE 0

\* C21: a media item whose element failed to load never has its loaded flag
\* set, and every tick whose current item is not flagged loaded draws the
\* placeholder.
C21_FailedMediaNeverLoaded ==
    /\ [](inst.o.class = "rectangular" =>
            \A i \in DOMAIN inst.o.mediaItems :
                inst.o.mediaItems[i].el = "failed" => ~inst.o.mediaItems[i].loaded)
    /\ [][(InstTick /\ (currentItem(inst.o) = 0 \/ ~inst.o.mediaItems[currentItem(inst.o)].loaded))
            => inst'.o.lastDraw = "placeholder"]_vars

\* C26: an item's loaded flag is set only when its own element has loaded.
C26_LoadedOnlyByOwnElement ==
    inst.o.class = "rectangular" =>
        \A i \in DOMAIN inst.o.mediaItems :
            inst.o.mediaItems[i].loaded => inst.o.mediaItems[i].el = "loaded"

\* C27: while the media list is not empty the current index points into it.
C27_IndexWithinList ==
    (inst.o.class = "rectangular" /\ Len(inst.o.mediaItems) > 0) =>
        (0 <= inst.o.currentMediaIndex /\ inst.o.currentMediaIndex < Len(inst.o.mediaItems))

\* a list of two that has rotated to its second item
C27_Witness ==
    /\ inst.o.class = "rectangular"
    /\ Len(inst.o.mediaItems) = 2
    /\ inst.o.currentMediaIndex = 1
    /\ inst.lastOp = "tick"

\* C28: once destroy() has run on an instance, the resize listener its
\* constructor registered is no longer on the window, and the listeners on
\* the window are no more than the instances still alive.
C28_DestroyRemovesResizeListener ==
    inst.destroys > 0 =>
        /\ bind(inst.o.id, "constructor") \notin inst.W
        /\ Cardinality(inst.W) < inst.made

\* ---------------------------------------------------------------------------
\* Frame analysis: the beat-onset scan of Visualizer.animate and
\* AudioAnalyzer.getAnalysisData, and getBassEnergy of the Sunburst and
\* Rectangular classes.  A frame is the sequence of its byte magnitudes;
\* bin i of the code is element i + 1 of the sequence.
\* ---------------------------------------------------------------------------

MaxHead == 4           \* leading bins of a frame that vary freely
MaxTail == 8           \* further bins of a frame, all of one level
PeakThreshold == 200
ByteMax == 255
Levels == {0, 50, PeakThreshold, ByteMax}

\* the peak test as it would be if the right-hand neighbour might be equal
isPeakOrPlateauStart(mag, i) ==
    /\ mag[i + 1] > mag[i]
    /\ mag[i + 1] >= mag[i + 2]
    /\ mag[i + 1] > PeakThreshold

\* the peak test on bin i: frequencyData[i] > frequencyData[i - 1] && ...
isPeak(mag, i) ==
    /\ mag[i + 1] > mag[i]
    /\ mag[i + 1] > mag[i + 2]
    /\ mag[i + 1] > PeakThreshold

\* the peaks loop: for (i = 1; i < length - 1; i++) if (...) peaks.push(i)
RECURSIVE peaksFrom(_, _)
peaksFrom(mag, i) ==
    IF i >= Len(mag) - 1 THEN <<>>
    ELSE (IF isPeak(mag, i) THEN <<i>> ELSE <<>>) \o peaksFrom(mag, i + 1)

findPeaks(mag) == peaksFrom(mag, 1)

\* Math.floor(frequencyData.length * 0.1)
bassRange(mag) == Len(mag) \div 10

\* the loop of getBassEnergy from bin i on.  frequencyWeight is
\* 1 - (i / bassRange) * 0.7 = (10 * bassRange - 7 * i) / (10 * bassRange);
\* the sums are kept as integers, energy in units of 1 / (255 * 10 * bassRange)
\* and weight in units of 1 / (10 * bassRange)
RECURSIVE bassSums(_, _)
bassSums(mag, i) ==
    IF i >= bassRange(mag) THEN [energy |-> 0, weight |-> 0]
    ELSE LET rest == bassSums(mag, i + 1)
             frequencyWeight == 10 * bassRange(mag) - 7 * i
         IN [energy |-> mag[i + 1] * frequencyWeight + rest.energy,
             weight |-> frequencyWeight + rest.weight]

\* getBassEnergy: Math.pow(energy / weight, 1.5).  0 / 0 is NaN and
\* Math.pow(NaN, 1.5) is NaN; otherwise the result is (num / den) ^ 1.5,
\* which is 0 exactly when num is 0
getBassEnergy(mag) ==
    LET sums == bassSums(mag, 0)
    IN IF sums.weight = 0
       THEN [nan |-> TRUE, num |-> 0, den |-> 0]
       ELSE [nan |-> FALSE, num |-> sums.energy, den |-> ByteMax * sums.weight]

\* the frames: up to MaxHead free bins followed by up to MaxTail equal bins
Heads == UNION {[1..n -> Levels] : n \in 0..MaxHead}
Tails == {[i \in 1..n |-> v] : n \in 0..MaxTail, v \in Levels}
Frames == {h \o t : h \in Heads, t \in Tails} \ {<<>>}

\* the frame specification: the analyser holds some frame; a tick of the
\* scheduler scans it for peaks, a draw of the instance takes its bass energy
FrameInit ==
    /\ impl = "app"
    /\ now = 0
    /\ src = NoSources
    /\ player = PlayerInit
    /\ app = AppInit
    /\ hist = HistInit
    /\ viz = VizInit
    /\ \E mag \in Frames :
        inst = [frequencyData |-> mag, peaks |-> <<>>, scanned |-> FALSE,
                bassEnergy |-> [nan |-> FALSE, num |-> 0, den |-> 1], drawn |-> FALSE]

FrameScan ==
    /\ ~inst.scanned
    /\ inst' = [inst EXCEPT !.peaks = findPeaks(inst.frequencyData), !.scanned = TRUE]
    /\ UNCHANGED InstVars

FrameDraw ==
    /\ ~inst.drawn
    /\ inst' = [inst EXCEPT !.bassEnergy = getBassEnergy(inst.frequencyData),
                            !.drawn = TRUE]
    /\ UNCHANGED InstVars

FrameNext == FrameScan \/ FrameDraw

SpecFrame == FrameInit /\ [][FrameNext]_vars

AllZero(mag) == \A i \in DOMAIN mag : mag[i] = 0

\* C15: for an all-zero frame of any length the bass energy is exactly 0,
\* never NaN, and no beat onset is found.
C15_SilentFrameHasZeroBass ==
    (AllZero(inst.frequencyData) /\ inst.scanned /\ inst.drawn)
        => (~inst.bassEnergy.nan /\ inst.bassEnergy.num = 0 /\ inst.peaks = <<>>)

\* the interior bins that stand above both neighbours and above 200
Onsets(mag) ==
    {i \in 1..(Len(mag) - 2) :
        mag[i + 1] > mag[i] /\ mag[i + 1] > mag[i + 2] /\ mag[i + 1] > 200}

Ascending(seq) == \A j \in 1..(Len(seq) - 1) : seq[j] < seq[j + 1]

Range(seq) == {seq[j] : j \in DOMAIN seq}

SpikeFrame == <<50, 50, 255, 50, 50>>

\* C16: the beat-onset list of a frame is the ascending list of the interior
\* bins that are strictly above both neighbours and above 200; the spike
\* frame yields [2].
C16_PeaksAreStrictInteriorMaxima ==
    inst.scanned =>
        /\ Ascending(inst.peaks)
        /\ Range(inst.peaks) = Onsets(inst.frequencyData)
        /\ (inst.frequencyData = SpikeFrame => inst.peaks = <<2>>)

\* the spike frame has been scanned
C16_Witness ==
    /\ inst.scanned
    /\ inst.frequencyData = SpikeFrame
    /\ inst.peaks = <<2>>

\* ---------------------------------------------------------------------------
\* The hue update at the head of draw() / updateElements() of the Sunburst,
\* Rectangular, Holiday and Holiday3D classes (the same code in each).
\* A hue is kept in units of 1 / HueScale degree, so that MaxTicks updates
\* with the easing factor (1 + intensity) / 100 are computed exactly.
\* ---------------------------------------------------------------------------

MaxTicks == 2          \* hue updates with a label in one behaviour
SpeedDen == 100        \* colorTransitionSpeed = 0.01 = 1 / SpeedDen
FullCircle == 360
HalfCircle == 180

RECURSIVE Pow(_, _)
Pow(b, n) == IF n = 0 THEN 1 ELSE b * Pow(b, n - 1)

HueScale == Pow(SpeedDen, MaxTicks)
Deg(d) == d * HueScale

Abs(x) == IF x < 0 THEN 0 - x ELSE x

\* JavaScript a % m: the remainder takes the sign of the dividend
jsRem(a, m) == IF a >= 0 THEN a % m ELSE 0 - ((0 - a) % m)

INSTRUMENTS == {"piano", "guitar", "bass", "drums", "violin", "cello", "flute",
                "saxophone", "trumpet", "synthesizer", "voice"}

\* instrumentColors
instrumentColors ==
    [l \in INSTRUMENTS |->
        CASE l = "piano" -> 210 [] l = "guitar" -> 120 [] l = "bass" -> 330
          [] l = "drums" -> 30 [] l = "violin" -> 60 [] l = "cello" -> 270
          [] l = "flute" -> 180 [] l = "saxophone" -> 0 [] l = "trumpet" -> 40
          [] l = "synthesizer" -> 300 [] l = "voice" -> 150]

\* instrumentColors[label] || 0
targetHue(label) == IF label \in INSTRUMENTS THEN instrumentColors[label] ELSE 0

\* the labels a frame can carry: null and the empty string are falsy
AbsentLabels == {"null", ""}
PresentLabels == INSTRUMENTS \cup {"kazoo"}

\* the label test as it would be if only null counted as absent
labelPresentUnlessNull(label) == label # "null"

\* if (analysisData.instrumentPrediction)
labelPresent(label) == label \notin AbsentLabels

\* the wrap shift as it would be without the short-way correction
shortPathShiftNever(c, t) == 0

\* if (Math.abs(diff) > 180) currentHue += 360 or -= 360
shortPathShift(c, t) ==
    IF Abs(t - c) > Deg(HalfCircle)
    THEN (IF c < t THEN Deg(FullCircle) ELSE 0 - Deg(FullCircle))
    ELSE 0

\* the normalisation as it would be with a single remainder
normalizeHueOnce(x) == jsRem(x, Deg(FullCircle))

\* ((currentHue % 360) + 360) % 360
normalizeHue(x) == jsRem(jsRem(x, Deg(FullCircle)) + Deg(FullCircle), Deg(FullCircle))

\* the hue update of one draw; intensity is averageFrequency / 255, 0 or 1
hueUpdate(H, label, intensity) ==
    IF ~labelPresent(label) THEN [H EXCEPT !.shift = 0]
    ELSE LET t == Deg(targetHue(label))
             shift == shortPathShift(H.currentHue, t)
             c1 == H.currentHue + shift
             c2 == c1 + ((t - c1) * (1 + intensity)) \div SpeedDen
         IN [H EXCEPT !.dominantInstrument = label,
                      !.currentHue = normalizeHue(c2),
                      !.shift = shift]

\* the hue specification: an instance whose hue stands anywhere on the
\* circle is drawn with frames that carry a label or none
StartHues == {30 * h : h \in 0..11} \cup {1, 179, 181, 359}

HueInit ==
    /\ impl = "app"
    /\ now = 0
    /\ src = NoSources
    /\ player = PlayerInit
    /\ app = AppInit
    /\ hist = HistInit
    /\ viz = VizInit
    /\ \E h \in StartHues :
        inst = [currentHue |-> Deg(h), dominantInstrument |-> "null", shift |-> 0,
                ticks |-> 0, before |-> Deg(h), remembered |-> "null", label |-> "none"]

HueTickAt(label, intensity) ==
    /\ inst.ticks < MaxTicks
    /\ LET H == hueUpdate(inst, label, intensity)
       IN inst' = [H EXCEPT !.ticks = @ + 1, !.before = inst.currentHue,
                            !.remembered = inst.dominantInstrument, !.label = label]
    /\ UNCHANGED InstVars

HueTick == \E label \in PresentLabels, intensity \in {0, 1} : HueTickAt(label, intensity)

HueTickNoLabel == \E label \in AbsentLabels, intensity \in {0, 1} : HueTickAt(label, intensity)

HueNext == HueTick \/ HueTickNoLabel

SpecHue == HueInit /\ [][HueNext]_vars

\* the distance between two hues along the shorter arc of the circle
CircularDistance(a, b) ==
    LET d == Abs(a - b) % Deg(FullCircle)
    IN Min(d, Deg(FullCircle) - d)

C18_NoLabelHoldsHue ==
    inst.label \in AbsentLabels =>
        (inst.currentHue = inst.before /\ inst.dominantInstrument = inst.remembered)

\* a label was remembered, the hue has moved, and then a frame with an empty
\* label was drawn
C18_Witness ==
    /\ inst.label = ""
    /\ inst.dominantInstrument = "piano"
    /\ inst.currentHue # Deg(210)
    /\ inst.ticks = 2

EnergyDen == 20
ActiveThreshold == 6            \* 0.3 in units of 1 / EnergyDen

AnimationPattern == {"STATIC", "BLINK", "CHASE", "WAVE", "TWINKLE", "STROBE",
                     "FADE", "ALTERNATE"}

\* band energies before the boost: 0, 0.2, 0.3, 0.4 and 1
RawEnergies == {0, 4, 6, 8, 20}

\* energy *= 1.5 when the element's instrument is the dominant one
boosted(raw, match) == IF match THEN (raw * 3) \div 2 ELSE raw

\* the BLINK test as it would be with the energy left out of the sine
blinkActiveAnyEnergy(sinPositive, energy) == sinPositive

\* Math.sin(this.time * 5 * energy) > 0: the argument is 0 when energy is 0
blinkActive(sinPositive, energy) == sinPositive /\ energy > 0

\* updateElementAnimation(element, energy).  sinPositive is the sign test of
\* Math.sin(time * k * energy), which is false when energy is 0; coin is the
\* outcome of Math.random() < energy * k, which is false when energy is 0
updateElementAnimation(E, energy, sinPositive, coin) ==
    CASE E.pattern = "BLINK" -> [E EXCEPT !.active = blinkActive(sinPositive, energy)]
      [] E.pattern = "TWINKLE" ->
            [E EXCEPT !.active = IF coin /\ energy > 0 THEN ~@ ELSE @]
      [] E.pattern = "STROBE" ->
            LET phase == (E.strobePhase + energy) % (2 * EnergyDen)
            IN [E EXCEPT !.strobePhase = phase, !.active = phase < EnergyDen]
      [] E.pattern = "FADE" ->
            [E EXCEPT !.brightness = IF sinPositive THEN 2 * energy ELSE 0]
      [] OTHER -> E

\* the body of the element loop of updateElements
updateElement(E, raw, match, sinPositive, coin) ==
    LET energy == boosted(raw, match)
        E1 == [E EXCEPT !.brightness = Min(2 * EnergyDen, 3 * energy),
                        !.active = @ \/ energy > ActiveThreshold,
                        !.energy = energy]
    IN updateElementAnimation(E1, energy, sinPositive, coin)

\* the element specification: one light element of any pattern is updated
\* tick after tick with any band energy
ElemInit ==
    /\ impl = "app"
    /\ now = 0
    /\ src = NoSources
    /\ player = PlayerInit
    /\ app = AppInit
    /\ hist = HistInit
    /\ viz = VizInit
    /\ \E pattern \in AnimationPattern :
        inst = [pattern |-> pattern, active |-> TRUE, brightness |-> 2 * EnergyDen,
                strobePhase |-> 0, energy |-> 0, updated |-> FALSE]

ElemUpdate ==
    /\ \E raw \in RawEnergies, match \in BOOLEAN, sinPositive \in BOOLEAN, coin \in BOOLEAN :
        inst' = [updateElement(inst, raw, match, sinPositive, coin) EXCEPT !.updated = TRUE]
    /\ UNCHANGED InstVars

ElemNext == ElemUpdate

SpecElem == ElemInit /\ [][ElemNext]_vars

\* C20: after an update, an element whose boosted band energy exceeds 0.3 is
\* active, whatever its pattern.
C20_LoudElementIsActive ==
    (inst.updated /\ inst.energy > ActiveThreshold) => inst.active

\* C30: a BLINK element whose band energy is 0 is not active after the
\* tick's update, whatever the animation time.
C30_SilentBlinkIsInactive ==
    (inst.updated /\ inst.pattern = "BLINK" /\ inst.energy = 0) => ~inst.active

\* a BLINK element that was lit by a loud tick and then updated with energy 0
C30_Witness ==
    /\ inst.updated
    /\ inst.pattern = "BLINK"
    /\ inst.energy = 0
    /\ ~inst.active
    /\ inst.brightness = 0

\* ---------------------------------------------------------------------
\* HolidayVisualization: beat effects and the star's size
\* ---------------------------------------------------------------------

\* bounds: reset timers pending at once, special effects in a run
MaxPending == 2
MaxSpecials == 3

\* widths of the canvas the instance is constructed on
CanvasWidths == {640, 800, 1024, 1280}

\* IEEE 754 binary64 numbers are records [m, e] of value m * 2^e whose
\* mantissa m has exactly MantissaBits bits (or is 0).  Mantissas and the
\* intermediate exact results are naturals written as little-endian
\* sequences of NumLimbs limbs to the base LimbBase.
MantissaBits == 53
LimbBits == 15
LimbBase == 32768
NumLimbs == 5

RECURSIVE mulFrom(_, _, _, _)
mulFrom(n, k, i, carry) ==
    IF i > Len(n) THEN <<>>
    ELSE LET t == n[i] * k + carry
         IN <<t % LimbBase>> \o mulFrom(n, k, i + 1, t \div LimbBase)

\* n * k for a small k
mulSmall(n, k) == mulFrom(n, k, 1, 0)

RECURSIVE divFrom(_, _, _, _)
divFrom(n, d, i, rem) ==
    IF i = 0 THEN [q |-> <<>>, r |-> rem]
    ELSE LET t == rem * LimbBase + n[i]
             rest == divFrom(n, d, i - 1, t % d)
         IN [q |-> rest.q \o <<t \div d>>, r |-> rest.r]

\* quotient and remainder of n by a small d
divSmall(n, d) == divFrom(n, d, Len(n), 0)

RECURSIVE bits(_)
bits(x) == IF x = 0 THEN 0 ELSE 1 + bits(x \div 2)

\* the number of bits of n
bitLen(n) ==
    LET used == {i \in DOMAIN n : n[i] # 0}
    IN IF used = {} THEN 0
       ELSE LET top == CHOOSE i \in used : \A j \in used : j <= i
            IN LimbBits * (top - 1) + bits(n[top])

RECURSIVE twoTo(_)
twoTo(k) == IF k = 0 THEN 1 ELSE 2 * twoTo(k - 1)

\* n + 1
RECURSIVE incFrom(_, _)
incFrom(n, i) ==
    IF i > Len(n) THEN n
    ELSE IF n[i] + 1 < LimbBase THEN [n EXCEPT ![i] = @ + 1]
         ELSE incFrom([n EXCEPT ![i] = 0], i + 1)

\* round to nearest, ties to even: up says the dropped part is above one
\* half, or is one half and q is odd
nearestEven(q, up) == IF up THEN incFrom(q, 1) ELSE q

\* the binary64 nearest to n * 2^e, where sticky says that the exact value
\* lies above n * 2^e by less than 2^e
roundToDouble(n, sticky, e) ==
    LET excess == bitLen(n) - MantissaBits
    IN IF excess <= 0 THEN [m |-> n, e |-> e]
       ELSE LET d == twoTo(excess)
                half == d \div 2
                cut == divSmall(n, d)
                up == \/ cut.r > half
                      \/ cut.r = half /\ (sticky \/ cut.q[1] % 2 = 1)
                m == nearestEven(cut.q, up)
            IN IF bitLen(m) > MantissaBits
               THEN [m |-> divSmall(m, 2).q, e |-> e + excess + 1]
               ELSE [m |-> m, e |-> e + excess]

\* the literal 0.1: the binary64 nearest to 1/10
Tenth ==
    LET one == [i \in 1..NumLimbs |-> IF i = 4 THEN 2048 ELSE 0]    \* 2^56
        cut == divSmall(one, 10)
    IN [m |-> IF 2 * cut.r >= 10 THEN incFrom(cut.q, 1) ELSE cut.q, e |-> 0 - 56]

\* an integer W times a binary64 x: W * x in JavaScript
timesInt(W, x) == roundToDouble(mulSmall(x.m, W), FALSE, x.e)

\* x *= 1.5
timesOneAndHalf(x) == roundToDouble(mulSmall(x.m, 3), FALSE, x.e - 1)

\* x /= 1.5
overOneAndHalf(x) ==
    LET cut == divSmall(mulSmall(x.m, 8), 3)     \* bits beyond the mantissa to round on
    IN roundToDouble(cut.q, cut.r # 0, x.e - 2)

\* the star as createYardElements makes it: width and height are both
\* this.width * 0.1
createStar(W) ==
    [width |-> timesInt(W, Tenth), height |-> timesInt(W, Tenth), bright |-> FALSE]

\* triggerSpecialEffect on the element picked by Math.random: S is the
\* state of the elements and of the reset timers
triggerSpecialEffect(S, type) ==
    CASE type = "STAR" ->
            [S EXCEPT !.star.bright = TRUE,
                      !.star.width = timesOneAndHalf(@),
                      !.star.height = timesOneAndHalf(@),
                      !.starTimers = @ + 1]
      [] type = "CHIMNEY" -> [S EXCEPT !.smoke = TRUE]
      [] type = "TREE" -> [S EXCEPT !.sparkle = TRUE, !.treeTimers = @ + 1]
      [] OTHER -> S

\* triggerBeatEffects once the 200 ms gate has passed
triggerBeatEffects(S, type) ==
    LET S1 == [S EXCEPT !.beatCount = (@ + 1) % 4]
    IN IF S1.beatCount = 0 THEN triggerSpecialEffect(S1, type) ELSE S1

\* the 500 ms timer of the star's special effect
resetStar(S) ==
    [S EXCEPT !.star.width = overOneAndHalf(@),
              !.star.height = overOneAndHalf(@),
              !.starTimers = @ - 1]

\* the 500 ms timer of the tree's special effect
resetTree(S) == [S EXCEPT !.sparkle = FALSE, !.treeTimers = @ - 1]

ElementTypes == {"STAR", "CHIMNEY", "TREE", "WINDOW"}

StarInit ==
    /\ impl = "app"
    /\ now = 0
    /\ src = NoSources
    /\ player = PlayerInit
    /\ app = AppInit
    /\ hist = HistInit
    /\ viz = VizInit
    /\ \E W \in CanvasWidths :
        inst = [star |-> createStar(W), original |-> createStar(W),
                beatCount |-> 0, starTimers |-> 0, treeTimers |-> 0,
                sparkle |-> FALSE, smoke |-> FALSE, specials |-> 0]

\* a tick with peaks, more than 200 ms after the last beat
StarBeat ==
    /\ \E type \in ElementTypes :
        /\ inst.beatCount = 3 =>
              /\ inst.specials < MaxSpecials
              /\ type = "STAR" => inst.starTimers < MaxPending
              /\ type = "TREE" => inst.treeTimers < MaxPending
        /\ inst' = [triggerBeatEffects(inst, type) EXCEPT
                       !.specials = IF inst.beatCount = 3 THEN @ + 1 ELSE @]
    /\ UNCHANGED InstVars

StarTimer ==
    /\ inst.starTimers > 0
    /\ inst' = resetStar(inst)
    /\ UNCHANGED InstVars

TreeTimer ==
    /\ inst.treeTimers > 0
    /\ inst' = resetTree(inst)
    /\ UNCHANGED InstVars

StarNext == StarBeat \/ StarTimer \/ TreeTimer

SpecStar == StarInit /\ [][StarNext]_vars

\* C29: whenever no reset timer of the star is pending, the star's width
\* and height are the ones it was created with.
C29_StarSizeRestored ==
    inst.starTimers = 0 =>
        /\ inst.star.width = inst.original.width
        /\ inst.star.height = inst.original.height

\* ---------------------------------------------------------------------
\* FiguresVisualization: the figures and their opacity
\* ---------------------------------------------------------------------

\* opacities are counted in units of 1/OpacityDen
OpacityDen == 200
MaxOpacity == 160          \* 0.8
FadeStep == 6              \* 0.03
RaiseStep == 10            \* 0.05

\* the instruments detected in a run; "null" is no prediction
FigureInstruments == {"piano", "drums"}

\* confidence = 0.7 + Math.random() * 0.3, in tenths
Confidences == {7, 8, 9}

\* a key without a figure
NoFigure == 0 - 1

\* the raise as it would be without the cap
raiseOpacityUncapped(opacity, confidence) == opacity + (RaiseStep * confidence) \div 10

\* figure.opacity = Math.min(0.8, figure.opacity + 0.05 * confidence)
raiseOpacity(opacity, confidence) ==
    Min(MaxOpacity, opacity + (RaiseStep * confidence) \div 10)

\* figure.opacity = Math.max(0, figure.opacity - 0.03)
fadeOpacity(opacity) == Max(0, opacity - FadeStep)

\* updateFigures({instrument, confidence}): F maps every key to the opacity
\* of its figure or to NoFigure; position, scale and rotation of a figure
\* are not part of F
updateFigures(F, instrument, confidence) ==
    IF instrument = "null" THEN F
    ELSE [key \in DOMAIN F |->
            IF key = instrument
            THEN raiseOpacity(IF F[key] = NoFigure THEN 0 ELSE F[key], confidence)
            ELSE IF F[key] = NoFigure THEN NoFigure
            ELSE IF fadeOpacity(F[key]) <= 0 THEN NoFigure
            ELSE fadeOpacity(F[key])]

FigInit ==
    /\ impl = "app"
    /\ now = 0
    /\ src = NoSources
    /\ player = PlayerInit
    /\ app = AppInit
    /\ hist = HistInit
    /\ viz = VizInit
    /\ inst = [figures |-> [key \in FigureInstruments |-> NoFigure],
               removed |-> [key \in FigureInstruments |-> NoFigure],
               instrument |-> "null"]

\* a tick: draw(analysisData) with any prediction and any confidence;
\* removed keeps, for the figures this tick deleted, the opacity they had
FigDraw ==
    /\ \E instrument \in FigureInstruments \cup {"null"}, confidence \in Confidences :
        LET F == updateFigures(inst.figures, instrument, confidence)
        IN inst' = [figures |-> F,
                    removed |-> [key \in FigureInstruments |->
                                    IF F[key] = NoFigure THEN inst.figures[key] ELSE NoFigure],
                    instrument |-> instrument]
    /\ UNCHANGED InstVars

FigNext == FigDraw

SpecFig == FigInit /\ [][FigNext]_vars

\* the figures the last tick removed
removedFigures == {key \in FigureInstruments : inst.removed[key] # NoFigure}

\* C23: a figure the tick removed was fading on that tick (it was not the
\* detected one) and the fade took its opacity from above 0 to 0; the
\* opacity of every figure is between 0 and 0.8.
C23_FiguresFadeOutWithinRange ==
    /\ \A key \in removedFigures :
        /\ key # inst.instrument
        /\ inst.instrument # "null"
        /\ inst.removed[key] > 0
        /\ fadeOpacity(inst.removed[key]) = 0
    /\ \A key \in FigureInstruments :
        inst.figures[key] # NoFigure =>
            (0 <= inst.figures[key] /\ inst.figures[key] <= MaxOpacity)

\* a tick that removed one figure while another stands at the cap
C23_Witness ==
    /\ removedFigures # {}
    /\ \E key \in FigureInstruments : inst.figures[key] = MaxOpacity

\* ---------------------------------------------------------------------
\* Holiday3DVisualization: the settings applied to the frame
\* ---------------------------------------------------------------------

\* the bins of a frame in this specification
SettingsBins == 5

\* reactivity in hundredths, as setReactivity leaves it
ReactivityDen == 100
MaxReactivity == 200
Reactivities == {0, 50, 100, 150, MaxReactivity}

\* this.reactivity = Math.max(0, Math.min(2, value))
setReactivity(value) == Max(0, Min(MaxReactivity, value))

\* The arrays live in a heap, a sequence of arrays; a reference is an index
\* into it.

\* the copy as it would be if the renderer kept working on the array it got
sameArray(heap, ref) == [heap |-> heap, ref |-> ref]

\* new Uint8Array(a) and [...a] allocate a copy of a
copyOf(heap, ref) == [heap |-> Append(heap, heap[ref]), ref |-> Len(heap) + 1]

\* Math.round(Math.sqrt(num / den)) for a byte-sized result
roundSqrt(num, den) ==
    CHOOSE k \in 0..ByteMax :
        /\ 4 * num < (2 * k + 1) * (2 * k + 1) * den
        /\ k > 0 => (2 * k - 1) * (2 * k - 1) * den <= 4 * num

\* Math.round(Math.pow(v / 255, 2 - reactivity) * 255), clamped to a byte
powerCurve(v, reactivity) ==
    CASE reactivity = 0 -> (2 * v * v + ByteMax) \div (2 * ByteMax)
      [] reactivity = 50 -> roundSqrt(v * v * v, ByteMax)
      [] reactivity = 150 -> roundSqrt(v * ByteMax, 1)
      [] reactivity = MaxReactivity -> ByteMax
      [] OTHER -> v

\* Holiday3DVisualization.applySettings(analysisData): the heap after the
\* call and the frame it returns
applySettings(heap, analysisData, reactivity) ==
    LET f == copyOf(heap, analysisData.frequencyData)
        w == copyOf(f.heap, analysisData.waveformData)
        t == copyOf(w.heap, analysisData.timeDomainData)
        p == copyOf(t.heap, analysisData.peaks)
        modifiedData == [frequencyData |-> f.ref, waveformData |-> w.ref,
                         timeDomainData |-> t.ref, peaks |-> p.ref]
        scaled == [p.heap EXCEPT ![f.ref] =
                      [i \in DOMAIN @ |-> powerCurve(@[i], reactivity)]]
        peaks == scaled[p.ref]
        peaksToKeep == Max(1, (Len(peaks) * reactivity) \div ReactivityDen)
    IN IF reactivity = ReactivityDen THEN [heap |-> p.heap, data |-> modifiedData]
       ELSE IF reactivity < ReactivityDen /\ Len(peaks) > 0
       THEN [heap |-> Append(scaled, SubSeq(peaks, 1, peaksToKeep)),     \* slice
             data |-> [modifiedData EXCEPT !.peaks = Len(scaled) + 1]]
       ELSE [heap |-> scaled, data |-> modifiedData]

\* the frame getAnalysisData builds from the analyser's bins: fresh arrays
\* for the frequency data, the waveform placeholder, the time-domain data
\* and the peaks
getAnalysisData(mag) ==
    [heap |-> <<mag, mag, [i \in 1..Len(mag) |-> 128], findPeaks(mag)>>,
     data |-> [frequencyData |-> 1, waveformData |-> 2, timeDomainData |-> 3, peaks |-> 4]]

\* the arrays of a frame, by value
contents(heap, data) ==
    [frequencyData |-> heap[data.frequencyData], waveformData |-> heap[data.waveformData],
     timeDomainData |-> heap[data.timeDomainData], peaks |-> heap[data.peaks]]

SettingsFrames == [1..SettingsBins -> Levels]

\* the settings specification: the caller holds a frame, the reactivity is
\* set, the instance draws the frame.  handed is the frame as it was when
\* draw() was called, used the frame the scene was updated from
SettingsInit ==
    /\ impl = "app"
    /\ now = 0
    /\ src = NoSources
    /\ player = PlayerInit
    /\ app = AppInit
    /\ hist = HistInit
    /\ viz = VizInit
    /\ \E mag \in SettingsFrames :
        LET frame == getAnalysisData(mag)
        IN inst = [heap |-> frame.heap, frame |-> frame.data, reactivity |-> ReactivityDen,
                   handed |-> contents(frame.heap, frame.data),
                   used |-> contents(frame.heap, frame.data), drawn |-> FALSE]

SettingsSetReactivity ==
    /\ ~inst.drawn
    /\ \E value \in Reactivities \cup {0 - 50, 250} :
        inst' = [inst EXCEPT !.reactivity = setReactivity(value)]
    /\ UNCHANGED InstVars

\* Holiday3DVisualization.draw(analysisData); the arrays applySettings
\* allocated are dropped when draw returns
SettingsDraw ==
    /\ ~inst.drawn
    /\ LET applied == applySettings(inst.heap, inst.frame, inst.reactivity)
       IN inst' = [inst EXCEPT !.heap = SubSeq(applied.heap, 1, Len(inst.heap)),
                               !.handed = contents(inst.heap, inst.frame),
                               !.used = contents(applied.heap, applied.data),
                               !.drawn = TRUE]
    /\ UNCHANGED InstVars

SettingsNext == SettingsSetReactivity \/ SettingsDraw

SpecSettings == SettingsInit /\ [][SettingsNext]_vars

\* C22: after draw() the arrays of the caller's frame hold what they held
\* when the frame was handed over.
C22_DrawLeavesFrameUntouched ==
    inst.drawn => contents(inst.heap, inst.frame) = inst.handed

\* a draw that scaled the frequency data and trimmed the peaks it used
C22_Witness ==
    /\ inst.drawn
    /\ inst.used.frequencyData # inst.handed.frequencyData
    /\ Len(inst.used.peaks) < Len(inst.handed.peaks)
    /\ contents(inst.heap, inst.frame) = inst.handed

\* ---------------------------------------------------------------------
\* Visualizer: the frame a tick hands to the instance
\* ---------------------------------------------------------------------

\* the bins of a frame in this specification
TickBins == 3

\* the bins are silent or at full scale
TickFrames == [1..TickBins -> {0, ByteMax}]

\* the types whose draw function builds a frame with a peak list
FrameTypes == {"sunburst", "rectangular", "holiday", "holiday_3d"}

\* useState<AudioAnalysisData | null>(null), and no frame handed yet
NullData == [null |-> TRUE]
NoFrame == [none |-> TRUE]

\* peaks: analysisData?.peaks || []
peaksOr(analysisData) == IF analysisData = NullData THEN <<>> ELSE analysisData.peaks

\* drawSunburst, drawRectangular, drawHoliday, drawHoliday3D: the frame
\* handed to the instance.  mag and peaks are animate's locals of this tick
\* (peaks is not a parameter of the draw functions), captured is the
\* analysisData of the render that created the running loop's closures
frameOf(mag, peaks, captured) == [frequencyData |-> mag, peaks |-> peaksOr(captured)]

\* the tick specification.  analysisData is the React state, captured the
\* value of analysisData the closures of the running loop were created
\* with, handed the frame of the last tick
TickInit ==
    /\ impl = "app"
    /\ now = 0
    /\ src = NoSources
    /\ player = PlayerInit
    /\ app = AppInit
    /\ hist = HistInit
    /\ viz = VizInit
    /\ inst = [analysisData |-> NullData, captured |-> NullData, running |-> FALSE,
               visualizationType |-> "cosmic", handed |-> NoFrame]

\* the play-state effect starts a loop: startVisualization and the draw
\* functions are those of the render the effect belongs to
TickStart ==
    /\ ~inst.running
    /\ \E type \in VisualizationType :
        inst' = [inst EXCEPT !.running = TRUE, !.captured = inst.analysisData,
                             !.visualizationType = type, !.handed = NoFrame]
    /\ UNCHANGED InstVars

\* animate: reads the analyser, computes the peaks, stores the frame in the
\* state and draws; the re-render the state change causes does not re-run
\* the effect, whose dependencies are unchanged
TickAnimate ==
    /\ inst.running
    /\ \E mag \in TickFrames :
        LET peaks == findPeaks(mag)
        IN inst' = [inst EXCEPT
                       !.analysisData = [frequencyData |-> mag, peaks |-> peaks],
                       !.handed = IF inst.visualizationType \in FrameTypes
                                  THEN frameOf(mag, peaks, inst.captured)
                                  ELSE NoFrame]
    /\ UNCHANGED InstVars

\* the cleanup of the play-state effect
TickStop ==
    /\ inst.running
    /\ inst' = [inst EXCEPT !.running = FALSE, !.handed = NoFrame]
    /\ UNCHANGED InstVars

TickNext == TickStart \/ TickAnimate \/ TickStop

SpecTick == TickInit /\ [][TickNext]_vars

\* C24: the peak list of the frame handed to the instance is the list of
\* onsets of the frequency data of the same frame.
C24_FramePeaksAreOfThisTick ==
    inst.handed # NoFrame => inst.handed.peaks = findPeaks(inst.handed.frequencyData)

====
